---- MODULE Spec2Model ----
(***************************************************************************)
(* Model of pages/1_Upload_Predict.py: the Streamlit "Upload & Predict"    *)
(* page.  One execution of the script (main) is triggered by every user    *)
(* interaction; the Analyze click runs the synchronous progress loop and   *)
(* writes st.session_state['prediction_results'].  The helper              *)
(* create_biomarker_radar_fallback is modelled as a function applied to    *)
(* bounded inputs.  Probabilities are kept in exact hundredths.            *)
(***************************************************************************)
EXTENDS Integers, Sequences, FiniteSets, TLC

VARIABLES
    uploaded_widget,    \* value of st.file_uploader (a file name or None)
    selected_biomarker, \* value of the biomarker selectbox
    intensity,          \* value of the intensity selectbox
    staining,           \* value of the staining selectbox
    location,           \* value of the location selectbox
    session_state,      \* st.session_state: key -> value
    clicked,            \* value st.button("Analyze Sample") returned in this execution
    uploaded_file,      \* main's local uploaded_file
    image,              \* main's local image
    biomarker_data,     \* main's local biomarker_data
    pc,                 \* "idle": script not executing; "loop": inside the progress loop
    i,                  \* loop variable of for i in range(100)
    progress_bar,       \* value shown by the progress bar, -1 when none is rendered
    status_text,        \* text of the status placeholder, None when none is rendered
    state,              \* outcome shown to the user: Idle, Running, Complete, Failed
    reason,             \* which error message was shown: NoImage, NoBiomarker, None
    active,             \* number of executions currently inside the analysis run
    overwritten,        \* a completed run has replaced a different earlier result
    r_data,             \* argument of create_biomarker_radar_fallback
    r_values,           \* intensity_values built by create_biomarker_radar_fallback
    r_pc                \* "call": before the call; "done": after it returned

vars == <<uploaded_widget, selected_biomarker, intensity, staining, location,
          session_state, clicked, uploaded_file, image, biomarker_data, pc, i,
          progress_bar, status_text, state, reason, active, overwritten,
          r_data, r_values, r_pc>>

widgets == <<uploaded_widget, selected_biomarker, intensity, staining, location>>
locals == <<uploaded_file, image, biomarker_data>>
radar == <<r_data, r_values, r_pc>>
run == <<session_state, clicked, pc, i, progress_bar, status_text, state,
         reason, active, overwritten>>

None == "None"

----------------------------------------------------------------------------
(* Bounds *)

NumBiomarkers == 2
NumIntensity == 2
NumStaining == 2
NumLocation == 2
MaxMarkers == 2

----------------------------------------------------------------------------
(* Option lists of create_biomarker_section *)

biomarker_options ==
    <<"Ki-67", "EGFR", "ESR1", "PGR", "BRCA1", "TP53", "ERBB2", "RB1", "SNAI1", "SNAI", "PTEN", "CDH1", "MKI67">>

intensity_options ==
    <<"Moderate", "Strong", "Negative", "Weak", "Negative ", "Strong ", "Moderate ", "Not detected", "315">>

staining_options ==
    <<"Medium", "High", "Not detected", "Low", "Medium ", "NOS (M-00100)", "NOS (M-80003)", "Lobular carcinoma (M-85203)">>

location_options ==
    <<"Nuclear", "Cytoplasmic", "cytoplasmic", "-", "Membranous nuclear", "Cytoplasmic/membranous", "Cytoplasmic/membranous, Nuclear", "Nuclear ", "Cytoplasmic/membranous, nuclear ", "Cytoplasmic/membranous ", "Cytoplasmic membranous, nuclear ", "Cytoplasmic membranous,nuclear ", "Cytoplasmic/membranous,nuclear", "Cytoplasmic/", "Negative", "Cytoplasmic/ membranous nuclear", "Weak", "Cytoplasmic/ membranous">>

First(seq, n) == {seq[k] : k \in 1..(IF n < Len(seq) THEN n ELSE Len(seq))}

Biomarkers == First(biomarker_options, NumBiomarkers)
Intensities == First(intensity_options, NumIntensity)
Stainings == First(staining_options, NumStaining)
Locations == First(location_options, NumLocation)

----------------------------------------------------------------------------
(* Upload: st.file_uploader and Image.open *)

Files == {"scan1.png", "scan2.jpg", "corrupt.png"}

Decodable == {"scan1.png", "scan2.jpg"}

Image_open == ("scan1.png" :> "Image(scan1.png)") @@ ("scan2.jpg" :> "Image(scan2.jpg)")

Images == {Image_open[f] : f \in Decodable}

create_upload_section_keepfile(widget) ==
    IF widget # None
    THEN IF widget \in Decodable
         THEN <<widget, Image_open[widget]>>
         ELSE <<widget, None>>
    ELSE <<None, None>>

create_upload_section(widget) ==
    IF widget # None
    THEN IF widget \in Decodable
         THEN <<widget, Image_open[widget]>>
         ELSE <<None, None>>
    ELSE <<None, None>>

----------------------------------------------------------------------------
(* Biomarker input *)

EmptyDict == << >>

create_biomarker_section(b, in, st, lo) ==
    [m \in {b} |-> [intensity |-> in, staining |-> st, location |-> lo]]

----------------------------------------------------------------------------
(* Prediction *)

Labels == {"IDC", "TNBC", "MBC", "ILC"}

predictions_off == [IDC |-> 75, TNBC |-> 15, MBC |-> 7, ILC |-> 4]

predictions == [IDC |-> 75, TNBC |-> 15, MBC |-> 7, ILC |-> 3]

prediction_results_top(img, bd) ==
    [image |-> img, biomarkers |-> bd, predictions |-> predictions,
     top_prediction |-> "TNBC", confidence |-> 75]

prediction_results(img, bd) ==
    [image |-> img, biomarkers |-> bd, predictions |-> predictions,
     top_prediction |-> "IDC", confidence |-> 75]

HasResult(ss) == "prediction_results" \in DOMAIN ss

store_merge(ss, result) ==
    IF HasResult(ss)
    THEN [k \in {"prediction_results"} |->
            [result EXCEPT !.image = ss["prediction_results"].image]]
    ELSE [k \in {"prediction_results"} |-> result]

store_result(ss, result) ==
    [k \in DOMAIN ss \cup {"prediction_results"} |->
        IF k = "prediction_results" THEN result ELSE ss[k]]

validate_biomarker_first(uf, bd) ==
    IF DOMAIN bd = {} THEN "NoBiomarker"
    ELSE IF uf = None THEN "NoImage"
    ELSE None

validate(uf, bd) ==
    IF uf = None THEN "NoImage"
    ELSE IF DOMAIN bd = {} THEN "NoBiomarker"
    ELSE None

range_end == 100

progress_value(k) == k + 1

stage_text_swapped(k) ==
    IF k < 30 THEN "Preprocessing image..."
    ELSE IF k < 60 THEN "Analyzing biomarkers..."
    ELSE IF k < 90 THEN "Running AI model..."
    ELSE "Generating results..."

stage_text(k) ==
    IF k < 30 THEN "Preprocessing image..."
    ELSE IF k < 60 THEN "Running AI model..."
    ELSE IF k < 90 THEN "Analyzing biomarkers..."
    ELSE "Generating results..."

script_reentrant == TRUE

script_idle == pc = "idle"

(* create_prediction_section up to the start of the loop; the caller sets  *)
(* the arguments uploaded_file', image', biomarker_data'.                  *)
create_prediction_section(click, uf, bd) ==
    /\ clicked' = click
    /\ UNCHANGED <<session_state, overwritten>>
    /\ IF ~click
       THEN /\ state' = "Idle"
            /\ reason' = None
            /\ pc' = "idle"
            /\ i' = 0
            /\ progress_bar' = -1
            /\ status_text' = None
            /\ active' = active
       ELSE IF validate(uf, bd) # None
       THEN /\ state' = "Failed"
            /\ reason' = validate(uf, bd)
            /\ pc' = "idle"
            /\ i' = 0
            /\ progress_bar' = -1
            /\ status_text' = None
            /\ active' = active
       ELSE /\ state' = "Running"
            /\ reason' = None
            /\ pc' = "loop"
            /\ i' = 0
            /\ progress_bar' = 0
            /\ status_text' = ""
            /\ active' = active + 1

(* One iteration of for i in range(100) *)
ProgressStep ==
    /\ pc = "loop"
    /\ i < range_end
    /\ progress_bar' = progress_value(i)
    /\ status_text' = stage_text(i)
    /\ i' = i + 1
    /\ UNCHANGED <<widgets, locals, radar, session_state, clicked, pc, state,
                   reason, active, overwritten>>

(* After the loop: the write to st.session_state and the return *)
Finish ==
    /\ pc = "loop"
    /\ i = range_end
    /\ session_state' = store_result(session_state,
                                     prediction_results(image, biomarker_data))
    /\ overwritten' = (overwritten \/
                        (HasResult(session_state) /\ session_state' # session_state))
    /\ state' = "Complete"
    /\ pc' = "idle"
    /\ active' = active - 1
    /\ UNCHANGED <<widgets, locals, radar, clicked, i, progress_bar,
                   status_text, reason>>

(* One execution of main with the widget values of the next state *)
main(click) ==
    LET up == create_upload_section(uploaded_widget')
        bd == create_biomarker_section(selected_biomarker', intensity',
                                       staining', location')
    IN  /\ uploaded_file' = up[1]
        /\ image' = up[2]
        /\ biomarker_data' = bd
        /\ create_prediction_section(click, up[1], bd)

UploadFile ==
    /\ script_idle
    /\ \E f \in (Files \cup {None}) \ {uploaded_widget} :
          uploaded_widget' = f
    /\ UNCHANGED <<selected_biomarker, intensity, staining, location, radar>>
    /\ main(FALSE)

(* The three attribute selectboxes are keyed by the selected biomarker, so  *)
(* a newly selected biomarker shows them at index=0.                        *)
SelectBiomarker ==
    /\ script_idle
    /\ \E b \in Biomarkers \ {selected_biomarker} :
          selected_biomarker' = b
    /\ intensity' = intensity_options[1]
    /\ staining' = staining_options[1]
    /\ location' = location_options[1]
    /\ UNCHANGED <<uploaded_widget, radar>>
    /\ main(FALSE)

SelectIntensity ==
    /\ script_idle
    /\ \E x \in Intensities \ {intensity} : intensity' = x
    /\ UNCHANGED <<uploaded_widget, selected_biomarker, staining, location, radar>>
    /\ main(FALSE)

SelectStaining ==
    /\ script_idle
    /\ \E x \in Stainings \ {staining} : staining' = x
    /\ UNCHANGED <<uploaded_widget, selected_biomarker, intensity, location, radar>>
    /\ main(FALSE)

SelectLocation ==
    /\ script_idle
    /\ \E x \in Locations \ {location} : location' = x
    /\ UNCHANGED <<uploaded_widget, selected_biomarker, intensity, staining, radar>>
    /\ main(FALSE)

RerunButton ==
    /\ script_idle
    /\ UNCHANGED <<widgets, radar>>
    /\ main(FALSE)

AnalyzeSample ==
    /\ script_idle
    /\ UNCHANGED <<widgets, radar>>
    /\ main(TRUE)

----------------------------------------------------------------------------
(* create_biomarker_radar_fallback *)

intensity_mapping ==
    ("Negative" :> 0) @@ ("Negative " :> 0) @@ ("Not detected" :> 0) @@
    ("Weak" :> 1) @@ ("Moderate" :> 2) @@ ("Moderate " :> 2) @@
    ("Strong" :> 3) @@ ("Strong " :> 3) @@ ("315" :> 3)

dict_get(d, k, default) == IF k \in DOMAIN d THEN d[k] ELSE default

(* biomarker_data as the list of its items in insertion order; the result  *)
(* is intensity_values, aligned with markers = list(biomarker_data.keys()) *)
create_biomarker_radar_fallback(data) ==
    [k \in 1..Len(data) |-> dict_get(intensity_mapping, data[k][2].intensity, 1)]

(* Raw intensity strings offered to the function: the table keys and       *)
(* strings outside the table                                                *)
RawIntensities ==
    {intensity_options[k] : k \in 1..Len(intensity_options)}
        \cup {"negative", " Strong", "STRONG", "42", "", "High"}

RadarItems ==
    {<<m, [intensity |-> s, staining |-> staining_options[1],
           location |-> location_options[1]]>> :
        m \in Biomarkers, s \in RawIntensities}

RadarInputs ==
    {<< >>}
    \cup (IF MaxMarkers >= 1 THEN {<<a>> : a \in RadarItems} ELSE {})
    \cup (IF MaxMarkers >= 2
          THEN {<<p[1], p[2]>> :
                    p \in {q \in RadarItems \X RadarItems : q[1][1] # q[2][1]}}
          ELSE {})

RadarCall ==
    /\ r_pc = "call"
    /\ r_values' = create_biomarker_radar_fallback(r_data)
    /\ r_pc' = "done"
    /\ UNCHANGED <<widgets, locals, run, r_data>>

(* create_prediction_section called directly with any arguments *)
SectionBiomarkerData ==
    {EmptyDict} \cup
    {create_biomarker_section(b, x, staining_options[1], location_options[1]) :
        b \in Biomarkers, x \in Intensities}

SectionCall ==
    /\ script_idle
    /\ \E click \in BOOLEAN, uf \in Files \cup {None},
          img \in Images \cup {None}, bd \in SectionBiomarkerData :
          /\ uploaded_file' = uf
          /\ image' = img
          /\ biomarker_data' = bd
          /\ create_prediction_section(click, uf, bd)
    /\ UNCHANGED <<widgets, radar>>

InitMain ==
    /\ uploaded_widget = None
    /\ selected_biomarker = biomarker_options[1]
    /\ intensity = intensity_options[1]
    /\ staining = staining_options[1]
    /\ location = location_options[1]
    /\ session_state = EmptyDict
    /\ clicked = FALSE
    /\ uploaded_file = None
    /\ image = None
    /\ biomarker_data = create_biomarker_section(biomarker_options[1],
                            intensity_options[1], staining_options[1],
                            location_options[1])
    /\ pc = "idle"
    /\ i = 0
    /\ progress_bar = -1
    /\ status_text = None
    /\ state = "Idle"
    /\ reason = None
    /\ active = 0
    /\ overwritten = FALSE

Init ==
    /\ InitMain
    /\ r_data = << >>
    /\ r_values = << >>
    /\ r_pc = "done"

Next ==
    \/ UploadFile
    \/ SelectBiomarker
    \/ SelectIntensity
    \/ SelectStaining
    \/ SelectLocation
    \/ RerunButton
    \/ AnalyzeSample
    \/ ProgressStep
    \/ Finish

Spec == Init /\ [][Next]_vars

NextSection ==
    \/ SectionCall
    \/ ProgressStep
    \/ Finish

SpecSection == Init /\ [][NextSection]_vars

InitRadar ==
    /\ InitMain
    /\ r_data \in RadarInputs
    /\ r_values = << >>
    /\ r_pc = "call"

NextRadar == RadarCall

SpecRadar == InitRadar /\ [][NextRadar]_vars

----------------------------------------------------------------------------
(* Properties *)

Result == session_state["prediction_results"]

NoProgress == progress_bar = -1 /\ status_text = None

C1_Failed ==
    clicked =>
        /\ uploaded_file = None =>
              state = "Failed" /\ reason = "NoImage" /\ pc = "idle" /\ NoProgress
        /\ (uploaded_file # None /\ DOMAIN biomarker_data = {}) =>
              state = "Failed" /\ reason = "NoBiomarker" /\ pc = "idle" /\ NoProgress

\* C1: a run request without an uploaded file fails with NoImage, one with a
\* file but an empty biomarker_data fails with NoBiomarker; in both cases no
\* progress is shown and the result store is left as it was.
C1_MissingInputFails ==
    /\ []C1_Failed
    /\ [][(clicked' /\ (uploaded_file' = None \/ DOMAIN biomarker_data' = {}))
            => session_state' = session_state]_vars

C1_Witness ==
    /\ clicked /\ uploaded_file # None /\ DOMAIN biomarker_data = {}
    /\ state = "Failed" /\ reason = "NoBiomarker"

\* C2: a run request with a file and a biomarker present is Running until it
\* is Complete, and the result then stored has a top_prediction among the four
\* labels that has the highest stored probability, with confidence equal to
\* that probability.
C2_ValidRunCompletes ==
    (clicked /\ uploaded_file # None /\ DOMAIN biomarker_data # {}) =>
        /\ state \in {"Running", "Complete"}
        /\ pc = "loop" => state = "Running"
        /\ pc = "idle" =>
              /\ state = "Complete"
              /\ HasResult(session_state)
              /\ Result.top_prediction \in Labels
              /\ \A l \in Labels :
                    Result.predictions[l] <= Result.predictions[Result.top_prediction]
              /\ Result.confidence = Result.predictions[Result.top_prediction]

C2_Witness ==
    /\ clicked /\ state = "Complete" /\ HasResult(session_state)
    /\ Result.image = "Image(scan1.png)"

\* C3: the result store changes only in the step that completes a run, to a
\* result made of that run's image and biomarkers only; a failed run leaves it
\* as it was; it never holds more than the one result.
C3_StoreFrame ==
    /\ [](DOMAIN session_state \subseteq {"prediction_results"})
    /\ [][/\ session_state' # session_state =>
                (state = "Running" /\ state' = "Complete")
          /\ (state = "Running" /\ state' = "Complete") =>
                session_state' =
                    [k \in {"prediction_results"} |->
                        [image |-> image, biomarkers |-> biomarker_data,
                         predictions |->
                            [IDC |-> 75, TNBC |-> 15, MBC |-> 7, ILC |-> 3],
                         top_prediction |-> "IDC", confidence |-> 75]]
          /\ state' = "Failed" => session_state' = session_state]_vars

C3_Witness ==
    overwritten /\ state = "Failed" /\ HasResult(session_state)

\* C4: every stored result has four probabilities, each within [0,1], that sum
\* to 1 (in hundredths: to 100).
C4_Distribution ==
    HasResult(session_state) =>
        /\ DOMAIN Result.predictions = Labels
        /\ \A l \in Labels :
              Result.predictions[l] >= 0 /\ Result.predictions[l] <= 100
        /\ Result.predictions["IDC"] + Result.predictions["TNBC"]
             + Result.predictions["MBC"] + Result.predictions["ILC"] = 100

C4_Witness ==
    /\ HasResult(session_state) /\ state = "Complete"
    /\ Result.image = "Image(scan2.jpg)"

DecodeFails == uploaded_widget \in Files \ Decodable

\* C9: when the uploaded bytes cannot be decoded, the upload step yields
\* neither a file handle nor an image, and a run request then fails with
\* NoImage and does not write the result store.
C9_DecodeFailure ==
    /\ []((uploaded_file = None <=> image = None)
          /\ (DecodeFails => (uploaded_file = None /\ image = None))
          /\ ((DecodeFails /\ clicked) =>
                 (state = "Failed" /\ reason = "NoImage" /\ pc = "idle")))
    /\ [][(DecodeFails' /\ clicked') => session_state' = session_state]_vars

C9_Witness ==
    /\ DecodeFails /\ clicked /\ state = "Failed" /\ reason = "NoImage"
    /\ HasResult(session_state)

StageRank(t) ==
    CASE t = "" -> 0
      [] t = "Preprocessing image..." -> 1
      [] t = "Running AI model..." -> 2
      [] t = "Analyzing biomarkers..." -> 3
      [] t = "Generating results..." -> 4
      [] OTHER -> -1

StageAt(p) ==
    IF p = 0 THEN 0
    ELSE IF p <= 30 THEN 1
    ELSE IF p <= 60 THEN 2
    ELSE IF p <= 90 THEN 3
    ELSE 4

\* C10: during a run the progress goes up one at a time to 100 and never
\* down, the stage shown is preprocessing up to 30, scoring up to 60,
\* biomarker analysis up to 90 and finalizing up to 100, the stage never goes
\* back, and the store is written only when progress is 100.
C10_Progress ==
    /\ [](state \in {"Running", "Complete"} =>
            /\ progress_bar \in 0..100
            /\ StageRank(status_text) = StageAt(progress_bar))
    /\ [](state = "Complete" => progress_bar = 100)
    /\ [][state = "Running" =>
            /\ progress_bar' \in {progress_bar, progress_bar + 1}
            /\ StageRank(status_text') >= StageRank(status_text)]_vars
    /\ [][session_state' # session_state => progress_bar = 100]_vars

C10_Witness ==
    /\ state = "Complete" /\ progress_bar = 100
    /\ status_text = "Generating results..." /\ overwritten

----------------------------------------------------------------------------
(* Intensity normalization as the specification describes it, over the     *)
(* characters of the raw strings                                            *)

Chars(s) ==
    CASE s = "Moderate" -> <<"M", "o", "d", "e", "r", "a", "t", "e">>
      [] s = "Strong" -> <<"S", "t", "r", "o", "n", "g">>
      [] s = "Negative" -> <<"N", "e", "g", "a", "t", "i", "v", "e">>
      [] s = "Weak" -> <<"W", "e", "a", "k">>
      [] s = "Negative " -> <<"N", "e", "g", "a", "t", "i", "v", "e", " ">>
      [] s = "Strong " -> <<"S", "t", "r", "o", "n", "g", " ">>
      [] s = "Moderate " -> <<"M", "o", "d", "e", "r", "a", "t", "e", " ">>
      [] s = "Not detected" -> <<"N", "o", "t", " ", "d", "e", "t", "e", "c", "t", "e", "d">>
      [] s = "315" -> <<"3", "1", "5">>
      [] s = "negative" -> <<"n", "e", "g", "a", "t", "i", "v", "e">>
      [] s = " Strong" -> <<" ", "S", "t", "r", "o", "n", "g">>
      [] s = "STRONG" -> <<"S", "T", "R", "O", "N", "G">>
      [] s = "42" -> <<"4", "2">>
      [] s = "" -> <<>>
      [] s = "High" -> <<"H", "i", "g", "h">>

RECURSIVE TrimLeft(_)
TrimLeft(cs) ==
    IF cs # << >> /\ Head(cs) = " " THEN TrimLeft(Tail(cs)) ELSE cs

RECURSIVE TrimRight(_)
TrimRight(cs) ==
    IF cs # << >> /\ cs[Len(cs)] = " "
    THEN TrimRight(SubSeq(cs, 1, Len(cs) - 1))
    ELSE cs

Trim(cs) == TrimRight(TrimLeft(cs))

Upper == <<"A","B","C","D","E","F","G","H","I","J","K","L","M",
           "N","O","P","Q","R","S","T","U","V","W","X","Y","Z">>

Lower == <<"a","b","c","d","e","f","g","h","i","j","k","l","m",
           "n","o","p","q","r","s","t","u","v","w","x","y","z">>

FoldChar(c) ==
    IF \E k \in 1..26 : Upper[k] = c
    THEN Lower[CHOOSE k \in 1..26 : Upper[k] = c]
    ELSE c

CaseFold(cs) == [k \in 1..Len(cs) |-> FoldChar(cs[k])]

Canonical(s) == CaseFold(Trim(Chars(s)))

Digits == {"0", "1", "2", "3", "4", "5", "6", "7", "8", "9"}

NumericLooking(s) ==
    Chars(s) # << >> /\ \A k \in 1..Len(Chars(s)) : Chars(s)[k] \in Digits

RawAt(k) == r_data[k][2].intensity

\* C6: every intensity string yields a rank 0..3, and every string absent from
\* the table yields the default Moderate (rank 2).
C6_DefaultModerate ==
    r_pc = "done" =>
        /\ Len(r_values) = Len(r_data)
        /\ \A k \in 1..Len(r_data) :
              /\ r_values[k] \in 0..3
              /\ RawAt(k) \notin DOMAIN intensity_mapping => r_values[k] = 2

\* C7: two raw intensity strings that differ only in surrounding whitespace or
\* letter case yield the same rank.
C7_TrimAndFold ==
    r_pc = "done" =>
        \A j, k \in 1..Len(r_data) :
            Canonical(RawAt(j)) = Canonical(RawAt(k)) => r_values[j] = r_values[k]

\* C8: every intensity string made of digits yields Strong (rank 3).
C8_NumericStrong ==
    r_pc = "done" =>
        \A k \in 1..Len(r_data) : NumericLooking(RawAt(k)) => r_values[k] = 3

====
